---- MODULE Spec2Model ----
(***************************************************************************)
(* Model of src/src/runtime.ts: the AWS Lambda custom runtime loop         *)
(* (start, getNext, buildContext, respond, respondError, reportInitError)  *)
(* and its transport helpers (post, toErrorPayload).                       *)
(*                                                                         *)
(* A JavaScript value is a record: t is its type tag, and one more field,  *)
(* named after the type, holds its content.                                *)
(* A text (a JS string, a URL, a request body) is a sequence of symbols;   *)
(* a symbol is one character, or one word whose letters no operation of    *)
(* the program looks into.                                                 *)
(***************************************************************************)
EXTENDS Integers, Sequences, FiniteSets, TLC

\* Number of poll requests one run of the model issues.
MaxPolls == 2

\* Number of times the clock advances in one run of the model.
MaxTicks == 2

\* the default time budget of an invocation, in milliseconds
DefaultTimeoutMs == 3000

-----------------------------------------------------------------------------
(* JavaScript values *)

Undef == [t |-> "undefined"]
Null == [t |-> "null"]
Num(n) == [t |-> "number", n |-> n]
Str(s) == [t |-> "string", s |-> s]
Arr(items) == [t |-> "array", items |-> items]
\* an object literal: the sequence of its <<key, value>> members, in order
Obj(members) == [t |-> "object", members |-> members]
BigIntV(n) == [t |-> "bigint", b |-> n]
\* an instance of Error: name and message are texts, stack a Str or Undef
Err(name, message, stack) ==
    [t |-> "error", name |-> name, message |-> message, stack |-> stack]

\* Number.NaN
NaN == [t |-> "NaN"]

\* the control result of a call: a returned value or a thrown one
Return(v) == [throws |-> FALSE, val |-> v]
Throw(e) == [throws |-> TRUE, val |-> e]

Digit == <<"0", "1", "2", "3", "4", "5", "6", "7", "8", "9">>
DigitSyms == {Digit[i] : i \in 1..10}
DigitVal(c) == CHOOSE d \in 0..9 : Digit[d + 1] = c

RECURSIVE NatText(_)
NatText(n) == IF n < 10 THEN <<Digit[n + 1]>>
              ELSE NatText(n \div 10) \o <<Digit[(n % 10) + 1]>>

\* ToBoolean: the values `!x` and `x ? a : b` take for false
Falsy(x) ==
    \/ x.t \in {"undefined", "null"}
    \/ x.t = "string" /\ x.s = <<>>
    \/ x.t = "number" /\ x.n = 0
    \/ x.t = "bigint" /\ x.b = 0
    \/ x.t = "NaN"

RECURSIVE ToStringJS(_)
RECURSIVE JoinJS(_)

\* Array.prototype.join(","): null and undefined elements give the empty text
JoinJS(items) ==
    IF items = <<>> THEN <<>>
    ELSE (IF Head(items).t \in {"undefined", "null"} THEN <<>> ELSE ToStringJS(Head(items)))
         \o (IF Len(items) > 1 THEN <<",">> ELSE <<>>)
         \o JoinJS(Tail(items))

\* String(x), also what a template literal `${x}` inserts
ToStringJS(x) ==
    CASE x.t = "undefined" -> <<"undefined">>
      [] x.t = "null" -> <<"null">>
      [] x.t = "number" -> NatText(x.n)
      [] x.t = "NaN" -> <<"NaN">>
      [] x.t = "bigint" -> NatText(x.b)
      [] x.t = "string" -> x.s
      [] x.t = "object" -> <<"[object Object]">>
      [] x.t = "array" -> JoinJS(x.items)
      [] x.t = "error" ->
            IF x.name = <<>> THEN x.message
            ELSE IF x.message = <<>> THEN x.name
            ELSE x.name \o <<":", " ">> \o x.message

-----------------------------------------------------------------------------
(* JSON.stringify *)

QuoteSym(c) ==
    CASE c = "\"" -> <<"\\", "\"">>
      [] c = "\\" -> <<"\\", "\\">>
      [] c = "\n" -> <<"\\", "n">>
      [] OTHER -> <<c>>

RECURSIVE QuoteSyms(_)
QuoteSyms(s) == IF s = <<>> THEN <<>> ELSE QuoteSym(Head(s)) \o QuoteSyms(Tail(s))

Quote(s) == <<"\"">> \o QuoteSyms(s) \o <<"\"">>

RECURSIVE Serializable(_)
\* JSON.stringify throws a TypeError on a BigInt anywhere in the value
Serializable(x) ==
    CASE x.t = "bigint" -> FALSE
      [] x.t = "array" -> \A i \in 1..Len(x.items) : Serializable(x.items[i])
      [] x.t = "object" -> \A i \in 1..Len(x.members) : Serializable(x.members[i][2])
      [] OTHER -> TRUE

RECURSIVE JsonText(_)
RECURSIVE JsonElems(_)
RECURSIVE JsonMembers(_, _)

JsonElems(items) ==
    IF items = <<>> THEN <<>>
    ELSE (IF Head(items).t = "undefined" THEN <<"null">> ELSE JsonText(Head(items)))
         \o (IF Len(items) > 1 THEN <<",">> ELSE <<>>)
         \o JsonElems(Tail(items))

\* members whose value is undefined are left out
JsonMembers(members, first) ==
    IF members = <<>> THEN <<>>
    ELSE IF Head(members)[2].t = "undefined" THEN JsonMembers(Tail(members), first)
    ELSE (IF first THEN <<>> ELSE <<",">>)
         \o Quote(Head(members)[1]) \o <<":">> \o JsonText(Head(members)[2])
         \o JsonMembers(Tail(members), FALSE)

JsonText(x) ==
    CASE x.t = "null" -> <<"null">>
      [] x.t = "NaN" -> <<"null">>
      [] x.t = "number" -> NatText(x.n)
      [] x.t = "string" -> Quote(x.s)
      [] x.t = "array" -> <<"[">> \o JsonElems(x.items) \o <<"]">>
      [] x.t = "object" -> <<"{">> \o JsonMembers(x.members, TRUE) \o <<"}">>
      [] x.t = "error" -> <<"{", "}">>

SerializeError ==
    Err(<<"TypeError">>, <<"Do not know how to serialize a BigInt">>,
        Str(<<"TypeError", ":", " ", "Do not know how to serialize a BigInt",
              "\n", " ", " ", "at", " ", "JSON.stringify">>))

\* JSON.stringify(x): a text, undefined for undefined, or a thrown TypeError
JSONstringify(x) ==
    IF x.t = "undefined" THEN Return(Undef)
    ELSE IF ~Serializable(x) THEN Throw(SerializeError)
    ELSE Return(Str(JsonText(x)))

-----------------------------------------------------------------------------
(* JSON.parse: recursive descent over the text; a parse result is
   [ok, val, pos], pos the index of the first symbol not consumed *)

ParseFail == [ok |-> FALSE, val |-> Undef, pos |-> 0]
Parsed(v, p) == [ok |-> TRUE, val |-> v, pos |-> p]

IsSpace(c) == c \in {" ", "\n"}

RECURSIVE SkipSpace(_, _)
SkipSpace(s, i) == IF i <= Len(s) /\ IsSpace(s[i]) THEN SkipSpace(s, i + 1) ELSE i

RECURSIVE ParseChars(_, _, _)
\* the symbols of a string literal, from i (just after the opening quote)
ParseChars(s, i, acc) ==
    IF i > Len(s) THEN ParseFail
    ELSE IF s[i] = "\"" THEN Parsed(Str(acc), i + 1)
    ELSE IF s[i] = "\n" THEN ParseFail
    ELSE IF s[i] = "\\" THEN
        IF i + 1 > Len(s) THEN ParseFail
        ELSE IF s[i + 1] = "\"" THEN ParseChars(s, i + 2, Append(acc, "\""))
        ELSE IF s[i + 1] = "\\" THEN ParseChars(s, i + 2, Append(acc, "\\"))
        ELSE IF s[i + 1] = "n" THEN ParseChars(s, i + 2, Append(acc, "\n"))
        ELSE ParseFail
    ELSE ParseChars(s, i + 1, Append(acc, s[i]))

RECURSIVE ParseDigits(_, _, _)
ParseDigits(s, i, acc) ==
    IF i <= Len(s) /\ s[i] \in DigitSyms
    THEN ParseDigits(s, i + 1, 10 * acc + DigitVal(s[i]))
    ELSE Parsed(Num(acc), i)

RECURSIVE ParseValue(_, _)
RECURSIVE ParseElems(_, _, _)
RECURSIVE ParseMembers(_, _, _)

\* the elements of an array, from i (just after "[" or ",")
ParseElems(s, i, acc) ==
    LET e == ParseValue(s, i)
        j == SkipSpace(s, e.pos)
    IN  IF ~e.ok \/ j > Len(s) THEN ParseFail
        ELSE IF s[j] = "," THEN ParseElems(s, j + 1, Append(acc, e.val))
        ELSE IF s[j] = "]" THEN Parsed(Arr(Append(acc, e.val)), j + 1)
        ELSE ParseFail

\* the members of an object, from i (just after "{" or ",")
ParseMembers(s, i, acc) ==
    LET k == SkipSpace(s, i)
        key == IF k <= Len(s) /\ s[k] = "\"" THEN ParseChars(s, k + 1, <<>>) ELSE ParseFail
        c == SkipSpace(s, key.pos)
        val == IF key.ok /\ c <= Len(s) /\ s[c] = ":" THEN ParseValue(s, c + 1) ELSE ParseFail
        j == SkipSpace(s, val.pos)
        more == Append(acc, <<key.val.s, val.val>>)
    IN  IF ~val.ok \/ j > Len(s) THEN ParseFail
        ELSE IF s[j] = "," THEN ParseMembers(s, j + 1, more)
        ELSE IF s[j] = "}" THEN Parsed(Obj(more), j + 1)
        ELSE ParseFail

ParseValue(s, i0) ==
    LET i == SkipSpace(s, i0)
    IN  IF i > Len(s) THEN ParseFail
        ELSE IF s[i] = "null" THEN Parsed(Null, i + 1)
        ELSE IF s[i] = "\"" THEN ParseChars(s, i + 1, <<>>)
        ELSE IF s[i] = "0" THEN Parsed(Num(0), i + 1)
        ELSE IF s[i] \in DigitSyms THEN ParseDigits(s, i, 0)
        ELSE IF s[i] = "[" THEN
            LET j == SkipSpace(s, i + 1)
            IN  IF j <= Len(s) /\ s[j] = "]" THEN Parsed(Arr(<<>>), j + 1)
                ELSE ParseElems(s, i + 1, <<>>)
        ELSE IF s[i] = "{" THEN
            LET j == SkipSpace(s, i + 1)
            IN  IF j <= Len(s) /\ s[j] = "}" THEN Parsed(Obj(<<>>), j + 1)
                ELSE ParseMembers(s, i + 1, <<>>)
        ELSE ParseFail

JsonSyntaxError ==
    Err(<<"SyntaxError">>, <<"Unexpected token in JSON">>,
        Str(<<"SyntaxError", ":", " ", "Unexpected token in JSON",
              "\n", " ", " ", "at", " ", "JSON.parse">>))

\* JSON.parse(text): the value, or a thrown SyntaxError
JSONparse(s) ==
    LET r == ParseValue(s, 1)
    IN  IF r.ok /\ SkipSpace(s, r.pos) > Len(s) THEN Return(r.val)
        ELSE Throw(JsonSyntaxError)

-----------------------------------------------------------------------------
(* String.prototype.split("\n") and String.prototype.trim *)

RECURSIVE SplitLines(_, _)
\* s.split("\n"), cur being the line read so far: never an empty sequence
SplitLines(s, cur) ==
    IF s = <<>> THEN <<cur>>
    ELSE IF Head(s) = "\n" THEN <<cur>> \o SplitLines(Tail(s), <<>>)
    ELSE SplitLines(Tail(s), Append(cur, Head(s)))

RECURSIVE TrimStart(_)
TrimStart(s) == IF s # <<>> /\ IsSpace(Head(s)) THEN TrimStart(Tail(s)) ELSE s

RECURSIVE TrimEnd(_)
TrimEnd(s) ==
    IF s # <<>> /\ IsSpace(s[Len(s)]) THEN TrimEnd(SubSeq(s, 1, Len(s) - 1)) ELSE s

Trim(s) == TrimEnd(TrimStart(s))

\* a ?? b
Coalesce(a, b) == IF a.t \in {"undefined", "null"} THEN b ELSE a

RECURSIVE DecimalValue(_, _)
DecimalValue(d, acc) ==
    IF d = <<>> THEN acc ELSE DecimalValue(Tail(d), 10 * acc + DigitVal(Head(d)))

\* Number(s) of a text: 0 when it is blank, the number its decimal digits
\* spell, NaN when it spells none
NumberJS(s) ==
    LET d == Trim(s)
    IN  IF d = <<>> THEN Num(0)
        ELSE IF \A i \in 1..Len(d) : d[i] \in DigitSyms THEN Num(DecimalValue(d, 0))
        ELSE NaN

\* a - b of two numbers
Minus(a, b) == IF a.t = "NaN" \/ b.t = "NaN" THEN NaN ELSE Num(a.n - b.n)

\* Math.max(a, b)
MathMax(a, b) ==
    IF a.t = "NaN" \/ b.t = "NaN" THEN NaN ELSE IF a.n >= b.n THEN a ELSE b

\* new Error(message), created inside toErrorPayload: the engine writes the stack
NewError(message) ==
    Err(<<"Error">>, message,
        Str(<<"Error">> \o (IF message = <<>> THEN <<>> ELSE <<":", " ">> \o message)
            \o <<"\n", " ", " ", " ", " ", "at", " ", "toErrorPayload">>))

\* toErrorPayload without the instanceof case: every value is coerced
toErrorPayload_flat(err) ==
    Obj(<< <<(<<"errorType">>), Str(<<"Error">>)>>,
           <<(<<"errorMessage">>), Str(ToStringJS(err))>>,
           <<(<<"stackTrace">>), Arr(<<>>)>> >>)

toErrorPayload(err) ==
    LET e == IF err.t = "error" THEN err ELSE NewError(ToStringJS(err))
        lines == SplitLines(Coalesce(e.stack, Str(<<>>)).s, <<>>)
    IN  Obj(<< <<(<<"errorType">>), Str(IF e.name = <<>> THEN <<"Error">> ELSE e.name)>>,
               <<(<<"errorMessage">>), Coalesce(Str(e.message), Str(ToStringJS(err)))>>,
               <<(<<"stackTrace">>), Arr([i \in 1..Len(lines) |-> Str(Trim(lines[i]))])>> >>)

-----------------------------------------------------------------------------
(* The process *)

VARIABLES
    RUNTIME_API,  \* process.env["AWS_LAMBDA_RUNTIME_API"], read when the module loads
    env,          \* process.env: the five variables that describe the function
    now,          \* Date.now(): milliseconds since the process started
    remaining,    \* in the handler: what its last call of getRemainingTimeInMillis gave
    pc,           \* where start() is: the await it is suspended at, or how it ended
    polls,        \* number of poll requests issued so far
    got,          \* number of calls of getNext that returned
    res,          \* in getNext: the response of the poll request
    next,         \* in start: the value getNext returned
    ctx,          \* in start: the context buildContext returned
    traceId,      \* process.env["_X_AMZN_TRACE_ID"]
    log,          \* the requests and the handler call of the current loop iteration
    past,         \* the requests and handler calls of the earlier iterations, in short
    stderr,       \* the lines written by console.error
    exits,        \* the status codes process.exit was called with
    rejection     \* the value the promise of start() rejected with

vars == <<RUNTIME_API, env, now, remaining, pc, polls, got, res, next, ctx, traceId,
          log, past, stderr, exits, rejection>>

\* what fetch rejects with when the transport fails
FetchError ==
    Err(<<"TypeError">>, <<"fetch failed">>,
        Str(<<"TypeError", ":", " ", "fetch failed", "\n", " ", " ", "at", " ", "fetch">>))

Base == <<"http://">> \o ToStringJS(RUNTIME_API) \o <<"/2018-06-01/runtime/">>
NextUrl == Base \o <<"invocation/next">>
InitErrorUrl == Base \o <<"init/error">>
\* the response URL with the request id kept from the poll before when the
\* poll response has none
ResponseUrl_sticky(requestId) ==
    Base \o <<"invocation/">>
        \o (IF Falsy(requestId) /\ polls > 1 THEN NatText(polls - 1)
            ELSE ToStringJS(requestId))
        \o <<"/response">>

ResponseUrl(requestId) == Base \o <<"invocation/">> \o ToStringJS(requestId) \o <<"/response">>
ErrorUrl(requestId) == Base \o <<"invocation/">> \o ToStringJS(requestId) \o <<"/error">>

\* an entry of the log: a request handed to fetch, or the call of the handler.
\* val is what the program passed (the payload of a POST) or got (the outcome
\* of the handler); status is pending until the operation settles.
Entry(op, url, body, val) ==
    [op |-> op, inv |-> polls, url |-> url, body |-> body, val |-> val,
     args |-> <<>>, status |-> "pending"]

Settle(l, status, val) ==
    [l EXCEPT ![Len(l)].status = status, ![Len(l)].val = val]

Short(e) == [op |-> e.op, inv |-> e.inv, url |-> e.url, status |-> e.status]

\* post without the string case: every payload goes through JSON.stringify
PostBody_stringify(payload) == JSONstringify(payload)

\* post(url, payload): the body handed to fetch, or the TypeError of JSON.stringify
PostBody(payload) ==
    IF payload.t = "string" THEN Return(payload) ELSE JSONstringify(payload)

\* respondError(requestId, err): the request it issues
RespondErrorEntry(requestId, err) ==
    Entry("error", ErrorUrl(requestId), PostBody(toErrorPayload(err)).val, err)

\* reportInitError without its first line: it posts whatever the endpoint is
ReportInitError_unguarded(err) ==
    <<Entry("init-error", InitErrorUrl, PostBody(toErrorPayload(err)).val, err)>>

\* reportInitError(err): the requests it issues
ReportInitError(err) ==
    IF Falsy(RUNTIME_API) THEN <<>>
    ELSE <<Entry("init-error", InitErrorUrl, PostBody(toErrorPayload(err)).val, err)>>

InitError ==
    Err(<<"Error">>, <<"AWS_LAMBDA_RUNTIME_API is not set. Not on Lambda?">>,
        Str(<<"Error", ":", " ", "AWS_LAMBDA_RUNTIME_API is not set. Not on Lambda?",
              "\n", " ", " ", " ", " ", "at", " ", "start">>))

-----------------------------------------------------------------------------
(* What the environment can do *)

ApiValues == {Undef, Str(<<>>), Str(<<"127.0.0.1:9001">>)}

HeaderJson == {Null, Str(<<"{", "\"", "k", "\"", ":", "1", "}">>), Str(<<"{", "k">>)}

EventBodies == {<<"{", "\"", "x", "\"", ":", "1", "}">>, <<"{", "\"", "x", "\"", ":">>}

\* values of the Lambda-Runtime-Deadline-Ms header: absent, a time, no number, blank
DeadlineHeaders == {Null, Str(NatText(2500)), Str(<<"soon">>), Str(<<" ">>)}

ArnHeaders == {Null, Str(<<"arn:aws:lambda:fn">>)}

\* the responses the host can give to poll request number n: it gives every
\* invocation its own request id and trace id
PollResponses(n) ==
    [requestId : {Null, Str(NatText(n))},
     trace : {Null, Str(<<"Root=">> \o NatText(n))},
     invokedArn : {Null},
     deadline : {Null},
     clientContext : HeaderJson,
     identity : HeaderJson,
     body : EventBodies]

\* responses to poll request number n with a header that is there and empty
EmptyHeaderResponses(n) ==
    [requestId : {Str(NatText(n))},
     trace : {Null},
     invokedArn : {Null},
     deadline : {Null},
     clientContext : {Str(<<>>)},
     identity : {Null},
     body : {<<"{", "\"", "x", "\"", ":", "1", "}">>}]
    \cup
    [requestId : {Str(NatText(n))},
     trace : {Null},
     invokedArn : {Null},
     deadline : {Null},
     clientContext : {Null},
     identity : {Str(<<>>)},
     body : {<<"{", "\"", "x", "\"", ":", "1", "}">>}]

\* the well-formed responses to poll request number n, in every combination of
\* the headers that go into the context
ContextResponses(n) ==
    [requestId : {Str(NatText(n))},
     trace : {Str(<<"Root=">> \o NatText(n))},
     invokedArn : ArnHeaders,
     deadline : DeadlineHeaders,
     clientContext : {Null},
     identity : {Null},
     body : {<<"{", "\"", "x", "\"", ":", "1", "}">>}]

\* the amounts of time, in milliseconds, the clock advances by in one step
ClockSteps == {2000}

\* the function's description in process.env, as Lambda sets it
Configured ==
    [AWS_LAMBDA_FUNCTION_NAME |-> Str(<<"fn">>),
     AWS_LAMBDA_FUNCTION_VERSION |-> Str(<<"$LATEST">>),
     AWS_LAMBDA_FUNCTION_MEMORY_SIZE |-> Str(<<"128">>),
     AWS_LAMBDA_LOG_GROUP_NAME |-> Str(<<"/aws/lambda/fn">>),
     AWS_LAMBDA_LOG_STREAM_NAME |-> Str(<<"2026/11/01/[$LATEST]ab">>)]

\* process.env[name] of a variable that is not set is undefined
EnvValues ==
    {Configured,
     [Configured EXCEPT !.AWS_LAMBDA_FUNCTION_MEMORY_SIZE = Undef,
                        !.AWS_LAMBDA_LOG_STREAM_NAME = Str(<<>>)],
     [v \in DOMAIN Configured |-> Undef]}

\* the values the handler can return
Returns ==
    {Undef, Null, Num(2), Str(<<"ok">>), Str(<<"7">>), Str(<<"\"", "a", "\"">>),
     Obj(<< <<(<<"doubled">>), Num(2)>> >>),
     Obj(<< <<(<<"a">>), Undef>>, <<(<<"s">>), Str(<<"q", "\"">>)>> >>),
     Arr(<<Num(1), Null>>),
     BigIntV(1)}

\* the values the handler can throw, or reject with
Throws ==
    {Err(<<"CustomError">>, <<"boom">>,
         Str(<<"CustomError", ":", " ", "boom", "\n", " ", " ", " ", " ", "at", " ",
               "handler", "\n", " ", " ", " ", " ", "at", " ", "start">>)),
     Err(<<>>, <<"no name">>, Undef),
     Str(<<"oops">>), Undef, Obj(<< <<(<<"code">>), Num(5)>> >>)}

-----------------------------------------------------------------------------
(* start() *)

\* the process when the module is loaded and start() is called
InitOf(apis, envs) ==
    /\ RUNTIME_API \in apis
    /\ env \in envs
    /\ now = 0
    /\ remaining = Undef
    /\ pc = "start"
    /\ polls = 0
    /\ got = 0
    /\ res = Undef
    /\ next = Undef
    /\ ctx = Undef
    /\ traceId = Undef
    /\ log = <<>>
    /\ past = <<>>
    /\ stderr = <<>>
    /\ exits = <<>>
    /\ rejection = Undef

Init == InitOf(ApiValues, {Configured})

\* the startup check without process.exit: start falls through into the loop
StartMissing_noexit ==
    /\ pc = "start"
    /\ Falsy(RUNTIME_API)
    /\ log' = log \o ReportInitError(InitError)
    /\ stderr' = Append(stderr, <<"Not running in Lambda (AWS_LAMBDA_RUNTIME_API missing).">>)
    /\ pc' = "loop"
    /\ UNCHANGED <<RUNTIME_API, env, now, remaining, polls, got, res, next, ctx,
                   traceId, past, exits, rejection>>

\* if (!RUNTIME_API) { await reportInitError(...); console.error(...); process.exit(1) }
StartMissing ==
    /\ pc = "start"
    /\ Falsy(RUNTIME_API)
    /\ log' = log \o ReportInitError(InitError)
    /\ stderr' = Append(stderr, <<"Not running in Lambda (AWS_LAMBDA_RUNTIME_API missing).">>)
    /\ exits' = Append(exits, 1)
    /\ pc' = "exited"
    /\ UNCHANGED <<RUNTIME_API, env, now, remaining, polls, got, res, next, ctx,
                   traceId, past, rejection>>

StartLoop ==
    /\ pc = "start"
    /\ ~Falsy(RUNTIME_API)
    /\ pc' = "loop"
    /\ UNCHANGED <<RUNTIME_API, env, now, remaining, polls, got, res, next, ctx,
                   traceId, log, past, stderr, exits, rejection>>

\* for (;;) { ... getNext(): fetch(".../invocation/next") is issued; the
\* iteration before is over, its next and ctx are out of scope
PollIssue ==
    /\ pc = "loop"
    /\ polls < MaxPolls
    /\ polls' = polls + 1
    /\ past' = past \o [i \in 1..Len(log) |-> Short(log[i])]
    /\ log' = <<[Entry("poll", NextUrl, Undef, Undef) EXCEPT !.inv = polls + 1]>>
    /\ res' = Undef
    /\ next' = Undef
    /\ ctx' = Undef
    /\ pc' = "fetch"
    /\ UNCHANGED <<RUNTIME_API, env, now, remaining, got, traceId, stderr, exits,
                   rejection>>

\* the poll request fails and the failure is swallowed: the loop polls again
FetchReject_retry ==
    /\ pc = "fetch"
    /\ log' = Settle(log, "failed", FetchError)
    /\ pc' = "loop"
    /\ UNCHANGED <<RUNTIME_API, env, now, remaining, polls, got, res, next, ctx,
                   traceId, past, stderr, exits, rejection>>

\* the poll request fails: getNext rejects, and start with it
FetchReject ==
    /\ pc = "fetch"
    /\ log' = Settle(log, "failed", FetchError)
    /\ rejection' = FetchError
    /\ pc' = "rejected"
    /\ UNCHANGED <<RUNTIME_API, env, now, remaining, polls, got, res, next, ctx,
                   traceId, past, stderr, exits>>

\* the poll request is answered: getNext reads the headers and awaits res.json()
\* deadlineMsStr is the header, or the text of Date.now() + 3000 when there is none;
\* readAt is the value of the clock at that moment
FetchResolveOf(responses) ==
    /\ pc = "fetch"
    /\ \E r \in responses :
        /\ res' = [requestId |-> r.requestId,
                   trace |-> r.trace,
                   invokedArn |-> r.invokedArn,
                   deadline |-> r.deadline,
                   deadlineMsStr |->
                       Coalesce(r.deadline, Str(ToStringJS(Num(now + DefaultTimeoutMs)))),
                   clientContext |-> r.clientContext,
                   identity |-> r.identity,
                   body |-> r.body,
                   readAt |-> now]
        /\ log' = Settle(log, "ok", Undef)
    /\ pc' = "json"
    /\ UNCHANGED <<RUNTIME_API, env, now, remaining, polls, got, next, ctx, traceId,
                   past, stderr, exits, rejection>>

FetchResolve == FetchResolveOf(PollResponses(polls) \cup EmptyHeaderResponses(polls))

\* getNext with a header that does not parse taken for an absent one
GetNextReturn_lenient ==
    /\ pc = "json"
    /\ LET event == JSONparse(res.body)
           trace == res.trace
           clientContext ==
               IF Falsy(res.clientContext) \/ JSONparse(res.clientContext.s).throws
               THEN Return(Undef)
               ELSE JSONparse(res.clientContext.s)
           identity ==
               IF Falsy(res.identity) \/ JSONparse(res.identity.s).throws
               THEN Return(Undef)
               ELSE JSONparse(res.identity.s)
       IN  IF event.throws
           THEN /\ rejection' = event.val
                /\ pc' = "rejected"
                /\ UNCHANGED <<got, next, traceId>>
           ELSE /\ traceId' = IF Falsy(trace) THEN traceId ELSE trace
                /\ IF clientContext.throws \/ identity.throws
                   THEN /\ rejection' =
                               IF clientContext.throws THEN clientContext.val
                               ELSE identity.val
                        /\ pc' = "rejected"
                        /\ UNCHANGED <<got, next>>
                   ELSE /\ next' = [requestId |-> res.requestId,
                                    invokedArn |-> Coalesce(res.invokedArn, Undef),
                                    deadlineMs |-> NumberJS(res.deadlineMsStr.s),
                                    clientContext |-> clientContext.val,
                                    identity |-> identity.val,
                                    event |-> event.val]
                        /\ got' = got + 1
                        /\ pc' = "got"
                        /\ UNCHANGED rejection
    /\ UNCHANGED <<RUNTIME_API, env, now, remaining, polls, res, ctx, log, past, stderr,
                   exits>>

\* res.json() settles; the rest of getNext runs: the trace id is published, the
\* two JSON headers are parsed, and getNext returns or throws
GetNextReturn ==
    /\ pc = "json"
    /\ LET event == JSONparse(res.body)
           trace == res.trace
           clientContext ==
               IF Falsy(res.clientContext) THEN Return(Undef)
               ELSE JSONparse(res.clientContext.s)
           identity ==
               IF Falsy(res.identity) THEN Return(Undef) ELSE JSONparse(res.identity.s)
       IN  IF event.throws
           THEN /\ rejection' = event.val
                /\ pc' = "rejected"
                /\ UNCHANGED <<got, next, traceId>>
           ELSE /\ traceId' = IF Falsy(trace) THEN traceId ELSE trace
                /\ IF clientContext.throws \/ identity.throws
                   THEN /\ rejection' =
                               IF clientContext.throws THEN clientContext.val
                               ELSE identity.val
                        /\ pc' = "rejected"
                        /\ UNCHANGED <<got, next>>
                   ELSE /\ next' = [requestId |-> res.requestId,
                                    invokedArn |-> Coalesce(res.invokedArn, Undef),
                                    deadlineMs |-> NumberJS(res.deadlineMsStr.s),
                                    clientContext |-> clientContext.val,
                                    identity |-> identity.val,
                                    event |-> event.val]
                        /\ got' = got + 1
                        /\ pc' = "got"
                        /\ UNCHANGED rejection
    /\ UNCHANGED <<RUNTIME_API, env, now, remaining, polls, res, ctx, log, past, stderr,
                   exits>>

\* getRemainingTimeInMillis() of the context built from base, called when
\* Date.now() is t, without Math.max
getRemainingTimeInMillis_raw(base, t) == Minus(base.deadlineMs, Num(t))

\* getRemainingTimeInMillis() of the context built from base, called when
\* Date.now() is t
getRemainingTimeInMillis(base, t) == MathMax(Num(0), Minus(base.deadlineMs, Num(t)))

\* buildContext with two of the environment variables taken for each other
buildContext_swapped(base) ==
    [awsRequestId |-> base.requestId,
     invokedFunctionArn |-> base.invokedArn,
     deadlineMs |-> base.deadlineMs,
     functionName |-> env.AWS_LAMBDA_FUNCTION_NAME,
     functionVersion |-> env.AWS_LAMBDA_FUNCTION_VERSION,
     memoryLimitInMB |-> env.AWS_LAMBDA_FUNCTION_MEMORY_SIZE,
     logGroupName |-> env.AWS_LAMBDA_LOG_STREAM_NAME,
     logStreamName |-> env.AWS_LAMBDA_LOG_GROUP_NAME,
     clientContext |-> base.clientContext,
     identity |-> base.identity]

\* the context object; its method getRemainingTimeInMillis closes over
\* base.deadlineMs, the field deadlineMs
buildContext(base) ==
    [awsRequestId |-> base.requestId,
     invokedFunctionArn |-> base.invokedArn,
     deadlineMs |-> base.deadlineMs,
     functionName |-> env.AWS_LAMBDA_FUNCTION_NAME,
     functionVersion |-> env.AWS_LAMBDA_FUNCTION_VERSION,
     memoryLimitInMB |-> env.AWS_LAMBDA_FUNCTION_MEMORY_SIZE,
     logGroupName |-> env.AWS_LAMBDA_LOG_GROUP_NAME,
     logStreamName |-> env.AWS_LAMBDA_LOG_STREAM_NAME,
     clientContext |-> base.clientContext,
     identity |-> base.identity]

\* the handler called twice, the first call not awaited
Dispatch_twice ==
    /\ pc = "got"
    /\ ctx' = buildContext(next)
    /\ log' = log \o <<[Entry("handler", <<>>, Undef, Undef)
                          EXCEPT !.args = <<next.event, buildContext(next)>>],
                        [Entry("handler", <<>>, Undef, Undef)
                          EXCEPT !.args = <<next.event, buildContext(next)>>]>>
    /\ pc' = "handler"
    /\ UNCHANGED <<RUNTIME_API, env, now, remaining, polls, got, res, next, traceId,
                   past, stderr, exits, rejection>>

\* const ctx = buildContext(next); try { handler(next.event, ctx) ...
Dispatch ==
    /\ pc = "got"
    /\ ctx' = buildContext(next)
    /\ log' = Append(log, [Entry("handler", <<>>, Undef, Undef)
                             EXCEPT !.args = <<next.event, buildContext(next)>>])
    /\ pc' = "handler"
    /\ UNCHANGED <<RUNTIME_API, env, now, remaining, polls, got, res, next, traceId,
                   past, stderr, exits, rejection>>

\* time passes while the poll request is out, or while the handler runs; the
\* program reads the clock at no other time
Tick ==
    /\ pc \in {"fetch", "handler"}
    /\ \E d \in ClockSteps :
        /\ now + d <= MaxTicks * d
        /\ now' = now + d
    /\ UNCHANGED <<RUNTIME_API, env, remaining, pc, polls, got, res, next, ctx, traceId,
                   log, past, stderr, exits, rejection>>

\* the handler calls context.getRemainingTimeInMillis()
GetRemainingTime ==
    /\ pc = "handler"
    /\ remaining' = getRemainingTimeInMillis(next, now)
    /\ UNCHANGED <<RUNTIME_API, env, now, pc, polls, got, res, next, ctx, traceId, log,
                   past, stderr, exits, rejection>>

\* the handler returns (or its promise resolves): await respond(next.requestId, out);
\* when post throws before it reaches fetch, the catch calls respondError
HandlerReturnOf(outs) ==
    /\ pc = "handler"
    /\ \E out \in outs :
        LET body == PostBody(out)
            settled == Settle(log, "ok", out)
        IN  IF body.throws
            THEN /\ log' = Append(settled, RespondErrorEntry(next.requestId, body.val))
                 /\ pc' = "respondError"
            ELSE /\ log' = Append(settled,
                               Entry("response", ResponseUrl(next.requestId), body.val, out))
                 /\ pc' = "respond"
    /\ remaining' = Undef
    /\ UNCHANGED <<RUNTIME_API, env, now, polls, got, res, next, ctx, traceId, past,
                   stderr, exits, rejection>>

HandlerReturn == HandlerReturnOf(Returns)

\* respondError called without await: the loop goes on while the POST is out
HandlerThrow_unawaited ==
    /\ pc = "handler"
    /\ \E e \in Throws :
        log' = Append(Settle(log, "failed", e), RespondErrorEntry(next.requestId, e))
    /\ pc' = "loop"
    /\ remaining' = Undef
    /\ UNCHANGED <<RUNTIME_API, env, now, polls, got, res, next, ctx, traceId, past,
                   stderr, exits, rejection>>

\* the handler throws (or its promise rejects): catch (e) { await respondError(...) }
HandlerThrowOf(es) ==
    /\ pc = "handler"
    /\ \E e \in es :
        log' = Append(Settle(log, "failed", e), RespondErrorEntry(next.requestId, e))
    /\ pc' = "respondError"
    /\ remaining' = Undef
    /\ UNCHANGED <<RUNTIME_API, env, now, polls, got, res, next, ctx, traceId, past,
                   stderr, exits, rejection>>

HandlerThrow == HandlerThrowOf(Throws)

\* the loop left after the first response: start returns
RespondResolve_return ==
    /\ pc = "respond"
    /\ log' = Settle(log, "ok", log[Len(log)].val)
    /\ pc' = "returned"
    /\ UNCHANGED <<RUNTIME_API, env, now, remaining, polls, got, res, next, ctx,
                   traceId, past, stderr, exits, rejection>>

\* the response POST completes: the iteration ends
RespondResolve ==
    /\ pc = "respond"
    /\ log' = Settle(log, "ok", log[Len(log)].val)
    /\ pc' = "loop"
    /\ UNCHANGED <<RUNTIME_API, env, now, remaining, polls, got, res, next, ctx,
                   traceId, past, stderr, exits, rejection>>

\* the failure of the response POST swallowed: the iteration ends without a report
RespondReject_swallowed ==
    /\ pc = "respond"
    /\ log' = Settle(log, "failed", log[Len(log)].val)
    /\ pc' = "loop"
    /\ UNCHANGED <<RUNTIME_API, env, now, remaining, polls, got, res, next, ctx,
                   traceId, past, stderr, exits, rejection>>

\* the response POST fails: respond rejects inside the try, the catch calls respondError
RespondReject ==
    /\ pc = "respond"
    /\ log' = Append(Settle(log, "failed", log[Len(log)].val),
                     RespondErrorEntry(next.requestId, FetchError))
    /\ pc' = "respondError"
    /\ UNCHANGED <<RUNTIME_API, env, now, remaining, polls, got, res, next, ctx,
                   traceId, past, stderr, exits, rejection>>

\* the error POST completes: the iteration ends
RespondErrorResolve ==
    /\ pc = "respondError"
    /\ log' = Settle(log, "ok", log[Len(log)].val)
    /\ pc' = "loop"
    /\ UNCHANGED <<RUNTIME_API, env, now, remaining, polls, got, res, next, ctx,
                   traceId, past, stderr, exits, rejection>>

\* the error POST fails: respondError rejects inside the catch, and start with it
RespondErrorReject ==
    /\ pc = "respondError"
    /\ log' = Settle(log, "failed", log[Len(log)].val)
    /\ rejection' = FetchError
    /\ pc' = "rejected"
    /\ UNCHANGED <<RUNTIME_API, env, now, remaining, polls, got, res, next, ctx,
                   traceId, past, stderr, exits>>

Next ==
    \/ StartMissing
    \/ StartLoop
    \/ PollIssue
    \/ FetchReject
    \/ FetchResolve
    \/ GetNextReturn
    \/ Dispatch
    \/ HandlerReturn
    \/ HandlerThrow
    \/ RespondResolve
    \/ RespondReject
    \/ RespondErrorResolve
    \/ RespondErrorReject

Spec == Init /\ [][Next]_vars

\* The loop as the handler sees it: the host answers every request, with every
\* combination of the headers that go into the context, the clock runs, and
\* the handler reads the remaining time as often as it likes.
ContextInit == InitOf({Str(<<"127.0.0.1:9001">>)}, EnvValues)

ContextNext ==
    \/ StartLoop
    \/ PollIssue
    \/ Tick
    \/ FetchResolveOf(ContextResponses(polls))
    \/ GetNextReturn
    \/ Dispatch
    \/ GetRemainingTime
    \/ HandlerReturnOf({Str(<<"ok">>)})
    \/ HandlerThrowOf({Str(<<"oops">>)})
    \/ RespondResolve
    \/ RespondErrorResolve

ContextSpec == ContextInit /\ [][ContextNext]_vars

\* the responses to poll request number n that getNext returns from: the body
\* is a JSON text, and so is every header that is parsed
WellFormedResponses(n) ==
    {r \in PollResponses(n) \cup EmptyHeaderResponses(n) :
        /\ ~JSONparse(r.body).throws
        /\ \A h \in {r.clientContext, r.identity} : Falsy(h) \/ ~JSONparse(h.s).throws}

\* the places start() can be at
Places ==
    {"start", "loop", "fetch", "json", "got", "handler", "respond", "respondError",
     "rejected", "exited"}

\* start() moves on: the operation it awaits settles, or the loop begins its next
\* iteration (the model stops counting at MaxPolls)
Resume ==
    /\ pc \notin {"rejected", "exited"}
    /\ pc = "loop" => polls < MaxPolls
    /\ pc' \in Places \ {pc}

\* The loop in normal operation: the endpoint is configured, no request fails
\* and every poll gives an invocation; the handler returns or throws. Every
\* operation that is out completes: start() is nowhere suspended for ever.
ProgressInit == InitOf({Str(<<"127.0.0.1:9001">>)}, {Configured})

ProgressNext ==
    \/ StartLoop
    \/ PollIssue
    \/ FetchResolveOf(WellFormedResponses(polls))
    \/ GetNextReturn
    \/ Dispatch
    \/ HandlerReturn
    \/ HandlerThrow
    \/ RespondResolve
    \/ RespondErrorResolve

ProgressSpec == ProgressInit /\ [][ProgressNext]_vars /\ WF_pc(Resume)

-----------------------------------------------------------------------------
(* Reading the log *)

\* every operation of the run so far, oldest first, in short
History == past \o [i \in 1..Len(log) |-> Short(log[i])]

\* the entries of the current iteration that are op
Of(op) == {i \in 1..Len(log) : log[i].op = op}

Reports == Of("response") \cup Of("error")

HandlerCalls ==
    LET h == History IN Cardinality({i \in 1..Len(h) : h[i].op = "handler"})

\* member key of an object value, undefined when it has none
Member(obj, key) ==
    IF obj.t = "object" /\ \E i \in 1..Len(obj.members) : obj.members[i][1] = key
    THEN obj.members[CHOOSE i \in 1..Len(obj.members) : obj.members[i][1] = key][2]
    ELSE Undef

\* the text a request carries: nothing when fetch was given no body
BodyText(body) == IF body.t = "string" THEN body.s ELSE <<>>

-----------------------------------------------------------------------------
(* C1 *)

\* C1: a poll request is issued only when no request and no handler call is
\* pending, and a poll request after the first only when a report POST
\* (response or error) of the iteration before has returned or thrown.
C1_OneAtATime ==
    [][polls' = polls + 1 =>
        /\ \A i \in 1..Len(History) : History[i].status # "pending"
        /\ polls >= 1 =>
            \E i \in Reports : log[i].inv = polls /\ log[i].status \in {"ok", "failed"}
      ]_vars

\* the second poll is out, after a response POST that failed and an error POST
C1_Witness ==
    /\ polls = 2
    /\ pc = "fetch"
    /\ \E i \in 1..Len(past) : past[i].op = "response" /\ past[i].status = "failed"
    /\ \E i \in 1..Len(past) : past[i].op = "error" /\ past[i].status = "ok"

-----------------------------------------------------------------------------
(* C2 *)

\* C2: every iteration whose handler was invoked issues exactly one report,
\* a response POST or an error POST: never both, and never neither once the
\* handler has settled.
C2_ExactlyOneReport ==
    /\ Cardinality(Reports) <= 1
    /\ \A h \in Of("handler") : log[h].status # "pending" => Cardinality(Reports) = 1

-----------------------------------------------------------------------------
(* C3 *)

\* C3: the handler is called exactly once for every poll that completed (the
\* call follows the return of getNext at once), its context is built from that
\* poll's result, and no handler call starts while another is pending.
C3_HandlerOncePerPoll ==
    /\ HandlerCalls = (IF pc = "got" THEN got - 1 ELSE got)
    /\ LET h == History
       IN  /\ \A k \in 1..polls :
                Cardinality({i \in 1..Len(h) : h[i].op = "handler" /\ h[i].inv = k}) <= 1
           /\ Cardinality({i \in 1..Len(h) :
                               h[i].op = "handler" /\ h[i].status = "pending"}) <= 1
    /\ \A h \in Of("handler") :
        /\ \E q \in Of("poll") : q < h /\ log[q].status = "ok" /\ log[q].inv = log[h].inv
        /\ ctx # Undef
        /\ next # Undef
        /\ ctx.awsRequestId = next.requestId
    /\ ctx # Undef => Of("handler") # {}

\* the handler of the second invocation is running, the first one is done
C3_Witness ==
    /\ polls = 2
    /\ pc = "handler"
    /\ HandlerCalls = 2
    /\ got = 2

-----------------------------------------------------------------------------
(* C4 *)

\* C4: when a response POST or an error POST fails, nothing more is sent for
\* the invocation and the loop goes on to the next poll.
C4_ReportFailureNeverStops ==
    [][(pc \in {"respond", "respondError"} /\ log'[Len(log)].status = "failed") =>
        (pc' = "loop" /\ Len(log') = Len(log))]_vars

-----------------------------------------------------------------------------
(* C5 *)

\* C5: when the handler fails, an error POST goes to the error endpoint of the
\* invocation and no response POST; whatever becomes of that POST, start does
\* not end and goes on to the next poll.
C5_HandlerFailureRecovered ==
    [][/\ (pc = "handler" /\ log'[Len(log)].status = "failed") =>
            /\ Len(log') = Len(log) + 1
            /\ log'[Len(log')].op = "error"
            /\ log'[Len(log')].url = ErrorUrl(next.requestId)
       /\ (pc = "respondError" /\ \E h \in Of("handler") : log[h].status = "failed") =>
            /\ Of("response") = {}
            /\ pc' = "loop"
      ]_vars

-----------------------------------------------------------------------------
(* C6 *)

\* C6: without AWS_LAMBDA_RUNTIME_API, start issues at most one init-error
\* report and nothing else, never polls or calls the handler, never rejects,
\* and its one step is the exit with status 1.
C6_FatalStartup ==
    Falsy(RUNTIME_API) =>
        /\ pc \in {"start", "exited"}
        /\ pc = "start" => ENABLED StartMissing
        /\ pc = "exited" => exits = <<1>> /\ exits[1] # 0
        /\ Cardinality(Of("init-error")) <= 1
        /\ \A i \in 1..Len(History) : History[i].op = "init-error"
        /\ polls = 0 /\ got = 0
        /\ rejection = Undef

C6_Witness ==
    /\ RUNTIME_API = Undef
    /\ pc = "exited"
    /\ Len(stderr) = 1

-----------------------------------------------------------------------------
(* C7 *)

RECURSIVE JsonRepresentable(_)
\* the values JSON.parse(JSON.stringify(x)) gives back
JsonRepresentable(x) ==
    CASE x.t \in {"null", "number", "string"} -> TRUE
      [] x.t = "array" -> \A i \in 1..Len(x.items) : JsonRepresentable(x.items[i])
      [] x.t = "object" -> \A i \in 1..Len(x.members) : JsonRepresentable(x.members[i][2])
      [] OTHER -> FALSE

\* C7 as stated: whatever the handler returned, there is exactly one response
\* POST, to the response endpoint of the request id, and its body parsed as
\* JSON is the returned value.
C7_RoundTripAnyValue ==
    \A h \in Of("handler") : log[h].status = "ok" =>
        /\ Cardinality(Of("response")) = 1
        /\ \A r \in Of("response") :
            /\ log[r].url = ResponseUrl(next.requestId)
            /\ JSONparse(BodyText(log[r].body)) = Return(log[h].val)

\* C7, amended: a value JSON.stringify accepts gets exactly one response POST
\* (a BigInt gets none); the body parses back to the value when it is a JSON
\* value other than a string; a string is the body as it is, and never parses
\* back to itself; undefined gives a POST without a body.
C7_RoundTrip ==
    \A h \in Of("handler") : log[h].status = "ok" =>
        LET V == log[h].val
        IN  /\ Cardinality(Of("response")) = (IF Serializable(V) THEN 1 ELSE 0)
            /\ \A r \in Of("response") :
                LET back == JSONparse(BodyText(log[r].body))
                IN  /\ log[r].url = ResponseUrl(next.requestId)
                    /\ V.t = "string" => log[r].body = V /\ back # Return(V)
                    /\ V.t = "undefined" => log[r].body = Undef
                    /\ (V.t # "string" /\ JsonRepresentable(V)) => back = Return(V)

\* the response POST for a returned {doubled: 2} is out, and parses back to it
C7_Witness ==
    /\ pc = "respond"
    /\ \E h \in Of("handler") : log[h].val = Obj(<< <<(<<"doubled">>), Num(2)>> >>)
    /\ \E r \in Of("response") :
        /\ log[r].body = Str(<<"{", "\"", "doubled", "\"", ":", "2", "}">>)
        /\ JSONparse(BodyText(log[r].body)).val = log[r].val

-----------------------------------------------------------------------------
(* C8 *)

\* C8: a poll response without a request id makes getNext fail: start ends
\* with that failure, and no handler call and no report follows.
C8_MissingRequestIdFatal ==
    (res # Undef /\ res.requestId = Null /\ pc # "json") =>
        /\ pc = "rejected"
        /\ Of("handler") = {}
        /\ Reports = {}

-----------------------------------------------------------------------------
(* C9 *)

\* C9: a poll response with a request id and a body that is not JSON gets no
\* handler call and an error POST to the error endpoint of its request id.
C9_BadBodyReported ==
    (res # Undef /\ res.requestId # Null /\ JSONparse(res.body).throws /\ pc # "json") =>
        /\ Of("handler") = {}
        /\ \E e \in Of("error") : log[e].url = ErrorUrl(res.requestId)

-----------------------------------------------------------------------------
(* C10 *)

\* the failure values of the model: what a handler throws, what fetch and
\* JSON.stringify throw
FailureValues == Throws \cup {FetchError, SerializeError, JsonSyntaxError}

\* errorType and errorMessage of payload are those of err
Shaped(payload, err) ==
    /\ Member(payload, <<"errorType">>) =
        Str(IF err.t = "error" /\ err.name # <<>> THEN err.name ELSE <<"Error">>)
    /\ Member(payload, <<"errorMessage">>) =
        Str(IF err.t = "error" THEN err.message ELSE ToStringJS(err))
    /\ Member(payload, <<"stackTrace">>).t = "array"

\* toErrorPayload shapes every failure value (a constant formula: the first
\* state decides it)
ShapesAll == pc = "start" => \A err \in FailureValues : Shaped(toErrorPayload(err), err)

\* C10 as stated: toErrorPayload shapes every failure value, and the body of
\* every error POST is the payload of the value the handler threw.
C10_PayloadOfHandlerThrow ==
    /\ ShapesAll
    /\ \A e \in Of("error") :
        \E h \in Of("handler") :
            /\ log[h].status = "failed"
            /\ Shaped(JSONparse(BodyText(log[e].body)).val, log[h].val)

\* what the catch of the iteration caught: the value the handler threw, or
\* else the failure of respond (of JSON.stringify, or of the response POST)
Caught ==
    IF \E h \in Of("handler") : log[h].status = "failed"
    THEN log[CHOOSE h \in Of("handler") : TRUE].val
    ELSE IF Of("response") = {} THEN SerializeError ELSE FetchError

\* C10, amended: toErrorPayload shapes every failure value, and the body of
\* every error POST is the payload of the value the catch caught: the value
\* the handler threw, or the failure of the response step.
C10_ErrorPayload ==
    /\ ShapesAll
    /\ \A e \in Of("error") :
        LET sent == JSONparse(BodyText(log[e].body))
        IN  /\ log[e].val = Caught
            /\ ~sent.throws
            /\ Shaped(sent.val, Caught)
            /\ sent.val = toErrorPayload(Caught)

\* the error POST for a thrown CustomError("boom") is out
C10_Witness ==
    \E e \in Of("error") :
        /\ log[e].val.t = "error"
        /\ log[e].val.name = <<"CustomError">>
        /\ Member(JSONparse(BodyText(log[e].body)).val, <<"errorType">>) = Str(<<"CustomError">>)
        /\ Member(JSONparse(BodyText(log[e].body)).val, <<"errorMessage">>) = Str(<<"boom">>)

-----------------------------------------------------------------------------
(* The context the handler sees *)

\* the values Date.now() takes in a run
Times == {k * d : k \in 0..MaxTicks, d \in ClockSteps}

Negative(x) == x.t = "number" /\ x.n < 0
Greater(a, b) == a.t = "number" /\ b.t = "number" /\ a.n > b.n

\* C11: at every instant t, getRemainingTimeInMillis() of the context of an
\* invocation is the greater of 0 and deadlineMs - t (not a number when the
\* deadline is none): it is never negative, it is never greater at a later
\* instant than at an earlier one, every value the handler reads is that of an
\* instant between the poll and now, and the deadline of an invocation whose
\* poll response had no deadline header is the clock value read when the
\* response came, plus 3000.
C11_RemainingTime ==
    next # Undef =>
        LET d == next.deadlineMs
            At(t) == getRemainingTimeInMillis(next, t)
        IN  /\ res.deadline = Null => d = Num(res.readAt + DefaultTimeoutMs)
            /\ \A t \in Times :
                /\ At(t) = IF d.t = "number"
                           THEN Num(IF d.n - t > 0 THEN d.n - t ELSE 0)
                           ELSE NaN
                /\ ~Negative(At(t))
            /\ \A t1, t2 \in Times : t1 <= t2 => ~Greater(At(t2), At(t1))
            /\ remaining # Undef =>
                   \E t \in Times : res.readAt <= t /\ t <= now /\ remaining = At(t)

\* the handler of an invocation that came without a deadline header reads the
\* remaining time after the default deadline has passed: it reads 0
C11_Witness ==
    /\ pc = "handler"
    /\ res.deadline = Null
    /\ now > res.readAt + DefaultTimeoutMs
    /\ remaining = Num(0)

\* the function's description in a context
Metadata(c) ==
    [AWS_LAMBDA_FUNCTION_NAME |-> c.functionName,
     AWS_LAMBDA_FUNCTION_VERSION |-> c.functionVersion,
     AWS_LAMBDA_FUNCTION_MEMORY_SIZE |-> c.memoryLimitInMB,
     AWS_LAMBDA_LOG_GROUP_NAME |-> c.logGroupName,
     AWS_LAMBDA_LOG_STREAM_NAME |-> c.logStreamName]

\* C12: functionName, functionVersion, memoryLimitInMB, logGroupName and
\* logStreamName of the context every handler call is given are the values of
\* the five environment variables, each unchanged (undefined when unset), and no
\* step of the runtime changes those variables, so every invocation of a run
\* sees the same five values.
C12_MetadataPassthrough ==
    /\ [](/\ \A i \in Of("handler") : Metadata(log[i].args[2]) = env
          /\ ctx # Undef => Metadata(ctx) = env)
    /\ [][env' = env]_vars

\* the handler of the second invocation runs in a process where the memory
\* size is not set and the other variables are
C12_Witness ==
    /\ pc = "handler"
    /\ got = 2
    /\ ctx.functionName = Str(<<"fn">>)
    /\ ctx.logGroupName = Str(<<"/aws/lambda/fn">>)
    /\ ctx.memoryLimitInMB = Undef
    /\ log[Len(log)].args[2] = ctx

-----------------------------------------------------------------------------
(* C13 *)

\* the URL of a report on the invocation whose request id header is id
ReportUrl(id, kind) ==
    <<"http://">> \o RUNTIME_API.s \o <<"/2018-06-01/runtime/", "invocation/">>
        \o (IF id = Null THEN <<"null">> ELSE id.s) \o <<kind>>

\* the reports of the run so far, oldest first
ReportHistory ==
    SelectSeq(History, LAMBDA e : e.op \in {"response", "error"})

\* C13: every response and error POST of an iteration is addressed to the
\* request id of the response to the poll of that iteration, the latest poll;
\* the handler is given the event of that response and a context with that
\* request id; the reports of a run are issued in the order of the polls; and
\* no report is addressed to the request id of another invocation.
C13_Correlation ==
    /\ \A i \in 1..Len(log) : log[i].inv = polls
    /\ \A i \in Of("response") : log[i].url = ReportUrl(res.requestId, "/response")
    /\ \A i \in Of("error") : log[i].url = ReportUrl(res.requestId, "/error")
    /\ \A i \in Of("handler") :
        /\ Return(log[i].args[1]) = JSONparse(res.body)
        /\ log[i].args[2].awsRequestId = res.requestId
        /\ \A j \in Reports : j > i
    /\ LET r == ReportHistory
       IN  /\ \A i, j \in 1..Len(r) : i < j => r[i].inv <= r[j].inv
           /\ \A i \in 1..Len(r) :
                \A n \in 1..MaxPolls, kind \in {"/response", "/error"} :
                    n # r[i].inv => r[i].url # ReportUrl(Str(NatText(n)), kind)

\* the first invocation was reported as failed under its own request id, and the
\* response POST of the second, under the second's request id, is out
C13_Witness ==
    /\ pc = "respond"
    /\ polls = 2
    /\ res.requestId = Str(<<"2">>)
    /\ log[Len(log)].url = ReportUrl(Str(<<"2">>), "/response")
    /\ \E i \in 1..Len(past) :
        /\ past[i].op = "error"
        /\ past[i].inv = 1
        /\ past[i].url = ReportUrl(Str(<<"1">>), "/error")

-----------------------------------------------------------------------------
(* C14 *)

\* a header value that is there and is no JSON text
NotJson(h) == h # Null /\ JSONparse(h.s).throws

\* the poll step of the iteration is over
Polled == res # Undef /\ pc # "json"

\* C14: when the response to a poll carries a client-context or identity header
\* whose value is no JSON text, the poll step fails with the parse failure:
\* start ends with it, the handler is not called and no report is sent.
C14_BadHeaderAborts ==
    (Polled /\ (NotJson(res.clientContext) \/ NotJson(res.identity))) =>
        /\ pc = "rejected"
        /\ rejection = JsonSyntaxError
        /\ next = Undef
        /\ Of("handler") = {}
        /\ Reports = {}

\* C14, amended: the same for a header whose value is not empty and is no JSON
\* text; a header whose value is empty is taken for an absent one, and the
\* context gets undefined for it.
C14_NonEmptyBadHeaderAborts ==
    /\ (Polled /\ \E h \in {res.clientContext, res.identity} : NotJson(h) /\ h.s # <<>>) =>
        /\ pc = "rejected"
        /\ rejection = JsonSyntaxError
        /\ next = Undef
        /\ Of("handler") = {}
        /\ Reports = {}
    /\ next # Undef =>
        /\ res.clientContext = Str(<<>>) => next.clientContext = Undef
        /\ res.identity = Str(<<>>) => next.identity = Undef

\* the second poll response has a valid body and client context, and an identity
\* header that is no JSON text: start has ended after one report, of the first
\* invocation
C14_Witness ==
    /\ pc = "rejected"
    /\ polls = 2
    /\ res # Undef
    /\ ~JSONparse(res.body).throws
    /\ res.clientContext # Null /\ ~NotJson(res.clientContext)
    /\ NotJson(res.identity) /\ res.identity.s # <<>>
    /\ Len(log) = 1
    /\ Len(ReportHistory) = 1

-----------------------------------------------------------------------------
(* C15 *)

\* the poll requests of the run so far that failed
FailedPolls ==
    LET h == History IN {i \in 1..Len(h) : h[i].op = "poll" /\ h[i].status = "failed"}

\* C15: a poll request that fails is the last operation of the run: start has
\* ended with the failure of the request, no handler call and no report
\* follows it, and the runtime takes no further step; every iteration has
\* issued one poll request.
C15_PollNeverRetried ==
    /\ LET h == History
       IN  \A k \in 1..polls :
               Cardinality({i \in 1..Len(h) : h[i].op = "poll" /\ h[i].inv = k}) = 1
    /\ FailedPolls # {} =>
        /\ FailedPolls = {Len(History)}
        /\ pc = "rejected"
        /\ rejection = FetchError
        /\ log[Len(log)].val = rejection
        /\ ~ENABLED Next

\* the second poll request failed after the first invocation was reported
C15_Witness ==
    /\ polls = 2
    /\ got = 1
    /\ pc = "rejected"
    /\ log[1].op = "poll"
    /\ log[1].status = "failed"
    /\ Len(ReportHistory) >= 1

-----------------------------------------------------------------------------
(* C16 *)

\* the trace ids of the invocations before the current one
EarlierTraceIds == {Str(<<"Root=">> \o NatText(k)) : k \in 1..(polls - 1)}

\* C16: while the handler of an invocation runs, _X_AMZN_TRACE_ID holds the
\* trace id of the response to that invocation's poll when the response has
\* one, and it never holds the trace id of an earlier invocation.
C16_TraceSlotFresh ==
    pc = "handler" =>
        /\ res.trace # Null => traceId = res.trace
        /\ traceId \notin EarlierTraceIds

-----------------------------------------------------------------------------
(* C17 *)

\* the Error whose stack toErrorPayload reads: the failure value, or the Error
\* it is wrapped in
Wrapped(err) == IF err.t = "error" THEN err ELSE NewError(ToStringJS(err))

\* C17: the stackTrace of the payload of every error POST is the stack of the
\* failure split at its line breaks, each line trimmed, in order, and it is
\* the empty sequence when the failure is an Error without a stack.
C17_StackTraceShape ==
    \A e \in Of("error") :
        LET err == Wrapped(log[e].val)
            stackTrace == Member(toErrorPayload(log[e].val), <<"stackTrace">>)
        IN  IF err.stack = Undef
            THEN stackTrace = Arr(<<>>)
            ELSE LET lines == SplitLines(err.stack.s, <<>>)
                 IN  stackTrace = Arr([i \in 1..Len(lines) |-> Str(Trim(lines[i]))])

-----------------------------------------------------------------------------
(* C18 *)

\* a report of invocation k has been sent and has completed
Reported(k) ==
    LET r == ReportHistory IN \E i \in 1..Len(r) : r[i].inv = k /\ r[i].status = "ok"

\* C18: in normal operation every invocation that getNext returned is
\* eventually reported, and the report is eventually followed by the next poll
\* request (as far as the model counts polls); start never ends, by return,
\* rejection or exit.
C18_Progress ==
    /\ \A k \in 1..MaxPolls : (got >= k) ~> Reported(k)
    /\ \A k \in 1..(MaxPolls - 1) : Reported(k) ~> (polls > k)
    /\ [](pc \notin {"returned", "rejected", "exited"})

\* the first invocation was reported and the second poll request is out
C18_Witness ==
    /\ Reported(1)
    /\ polls = 2
    /\ pc = "fetch"

-----------------------------------------------------------------------------
(* C19 *)

\* C19: no request to the init-error endpoint is ever issued. The startup
\* failure is reported only when AWS_LAMBDA_RUNTIME_API is missing, and then
\* the run consists of no request at all, the diagnostic line on stderr and
\* the exit with status 1.
C19_NoInitErrorPost ==
    /\ LET h == History
       IN  \A i \in 1..Len(h) :
               /\ h[i].op # "init-error"
               /\ h[i].url # <<"http://">> \o ToStringJS(RUNTIME_API)
                                \o <<"/2018-06-01/runtime/", "init/error">>
    /\ stderr # <<>> =>
        /\ Falsy(RUNTIME_API)
        /\ pc = "exited"
        /\ log = <<>> /\ past = <<>>
        /\ stderr = <<(<<"Not running in Lambda (AWS_LAMBDA_RUNTIME_API missing).">>)>>
        /\ exits = <<1>>
    /\ pc = "exited" => stderr # <<>>

\* AWS_LAMBDA_RUNTIME_API is set to the empty string: the process has exited
\* and has issued no request
C19_Witness ==
    /\ RUNTIME_API = Str(<<>>)
    /\ pc = "exited"
    /\ log = <<>>
    /\ exits = <<1>>

-----------------------------------------------------------------------------
(* C20 *)

\* C20: when the response POST of an invocation has failed after its handler
\* returned, the next operation is an error POST for the same request id, whose
\* payload is that of the transport failure; the handler is called once for the
\* invocation; and the next poll request is issued only when the error POST
\* has completed: while it is out start waits, and when it fails start ends.
C20_ResponseFailureReported ==
    /\ \A r \in Of("response") :
        log[r].status = "failed" =>
            /\ Len(log) = r + 1
            /\ log[r + 1].op = "error"
            /\ log[r + 1].url = ReportUrl(res.requestId, "/error")
            /\ log[r + 1].val = FetchError
            /\ LET sent == JSONparse(BodyText(log[r + 1].body))
               IN  /\ ~sent.throws
                   /\ Member(sent.val, <<"errorType">>) = Str(FetchError.name)
                   /\ Member(sent.val, <<"errorMessage">>) = Str(FetchError.message)
            /\ \E h \in Of("handler") :
                Of("handler") = {h} /\ h < r /\ log[h].status = "ok"
            /\ log[r + 1].status = "pending" <=> pc = "respondError"
            /\ log[r + 1].status = "ok" <=> pc = "loop"
            /\ log[r + 1].status = "failed" <=> pc = "rejected"
            /\ pc = "rejected" => ~ENABLED Next
    /\ LET h == History
       IN  \A i \in 1..Len(h) :
               (h[i].op = "response" /\ h[i].status = "failed") =>
                   /\ i < Len(h)
                   /\ h[i + 1].op = "error" /\ h[i + 1].inv = h[i].inv
                   /\ i + 1 < Len(h) =>
                       /\ h[i + 1].status = "ok"
                       /\ h[i + 2].op = "poll"
                   /\ Cardinality({j \in 1..Len(h) :
                                      h[j].op = "handler" /\ h[j].inv = h[i].inv}) = 1

\* the response POST of the first invocation failed, the error POST for it
\* completed, and the poll request of the second is out
C20_Witness ==
    /\ polls = 2
    /\ pc = "fetch"
    /\ \E i \in 1..(Len(past) - 1) :
        /\ past[i].op = "response" /\ past[i].status = "failed"
        /\ past[i + 1].op = "error" /\ past[i + 1].status = "ok"
        /\ past[i + 1].url = ReportUrl(Str(<<"1">>), "/error")

====
